---- MODULE Spec2Model ----
(***************************************************************************)
(* The OpenQASM 2.0 codec of tequila (src/tequila/circuit/qasm.py):        *)
(* export_open_qasm / convert_to_open_qasm_2 / name_and_params on the      *)
(* export side, import_open_qasm / parse_command on the import side.       *)
(*                                                                         *)
(* Text is a sequence of one-character strings, so that str(), lower(),    *)
(* find(), split() and the regular expression of parse_command are         *)
(* computed character by character as Python computes them.                *)
(***************************************************************************)
EXTENDS Integers, Sequences, FiniteSets, TLC

VARIABLES
    call,        \* which entry point the caller uses: "export" or "import"
    circuit,     \* export_open_qasm: argument circuit (sequence of gates)
    variables,   \* export_open_qasm: argument variables (None or a mapping)
    compiled,    \* convert_to_open_qasm_2: local compiled (gates of the compiled circuit)
    result,      \* convert_to_open_qasm_2: local result (text built so far)
    gi,          \* convert_to_open_qasm_2: position of the loop `for g in compiled.gates`
    pc,          \* control position of the running call
    ret,         \* what export_open_qasm gave back: returned text or raised error
    qasm_code,   \* import_open_qasm: argument qasm_code
    rigorous,    \* import_open_qasm: argument rigorous
    imp,         \* what import_open_qasm gave back: returned circuit or raised error
    command,     \* parse_command: argument command
    parsed,      \* what parse_command gave back
    code,        \* import_open_qasm: local code (lines 81-89)
    iters        \* number of iterations the custom-gate loop has made

vars == <<call, circuit, variables, compiled, result, gi, pc, ret,
          qasm_code, rigorous, imp, command, parsed, code, iters>>

----------------------------------------------------------------------------
(* Bounds of the model *)

\* longest circuit handed to export
MaxGates == 2
\* largest number of controls on a gate (the exporter accepts up to 2)
MaxControls == 3
\* the custom-gate loop is followed while the text is at most this long
MaxCodeLen == 60

----------------------------------------------------------------------------
(* Python values *)

\* Python's None, for a text-valued or sequence-valued place
None == <<"None">>

NoError == [type |-> "", msg |-> "", arg |-> <<>>]

\* TequilaException of qasm.py:137-139
MissingVariables ==
    [type |-> "TequilaException",
     msg |-> "You called export_open_qasm for a parametrized type but forgot to pass down the variables: {}",
     arg |-> <<>>]

\* TequilaException of qasm.py:179-180
UnsupportedControlArity ==
    [type |-> "TequilaException",
     msg |-> "Multi-controls beyond 2 not yet supported for OpenQASM 2.0. Gate was:\n{}",
     arg |-> <<>>]

\* raised by g.parameter(variables) when a variable of the parameter has no value
UnresolvedParameter ==
    [type |-> "TequilaException", msg |-> "variable has no value", arg |-> <<>>]

\* TequilaException of qasm.py:74
MalformedHeaderVersion ==
    [type |-> "TequilaException",
     msg |-> "File must start with the 'OPENQASM' directive", arg |-> <<>>]

\* TequilaException of qasm.py:79
MalformedHeaderInclude ==
    [type |-> "TequilaException",
     msg |-> "File must import standard library", arg |-> <<>>]

\* TequilaException of qasm.py:244; the message ends with the command verbatim
UnsupportedOperation(cmd) ==
    [type |-> "TequilaException", msg |-> "Unsupported operation {}", arg |-> cmd]

\* iterating a value that is not iterable (qasm.py:63)
TypeError ==
    [type |-> "TypeError",
     msg |-> "'builtin_function_or_method' object is not iterable", arg |-> <<>>]

\* unpacking `name, rest = ...` from a list of one element (qasm.py:240)
ValueError ==
    [type |-> "ValueError",
     msg |-> "not enough values to unpack (expected 2, got 1)", arg |-> <<>>]

\* args[0] of an empty list (qasm.py:255-259)
IndexError ==
    [type |-> "IndexError", msg |-> "list index out of range", arg |-> <<>>]

\* .group(1) of the None that re.search returns on no match (qasm.py:255-259)
AttributeError ==
    [type |-> "AttributeError",
     msg |-> "'NoneType' object has no attribute 'group'", arg |-> <<>>]

----------------------------------------------------------------------------
(* Text helpers: Python's str methods on sequences of characters *)

Range(s) == {s[i] : i \in DOMAIN s}

DigitChars == <<"0","1","2","3","4","5","6","7","8","9">>

IsDigit(ch) == ch \in Range(DigitChars)

RECURSIVE StrNat(_)
StrNat(n) ==
    IF n < 10 THEN <<DigitChars[n + 1]>>
    ELSE StrNat(n \div 10) \o <<DigitChars[(n % 10) + 1]>>

\* str(n) of a Python int
str(n) == IF n < 0 THEN <<"-">> \o StrNat(0 - n) ELSE StrNat(n)

DigitValue(ch) == CHOOSE d \in 0..9 : DigitChars[d + 1] = ch

RECURSIVE IntOf(_)
\* int(s) of a non-empty string of decimal digits
IntOf(s) ==
    IF Len(s) = 1 THEN DigitValue(s[1])
    ELSE IntOf(SubSeq(s, 1, Len(s) - 1)) * 10 + DigitValue(s[Len(s)])

LowerChar(ch) ==
    CASE ch = "X" -> "x" [] ch = "Y" -> "y" [] ch = "Z" -> "z"
      [] ch = "H" -> "h" [] ch = "R" -> "r" [] OTHER -> ch

\* s.lower()
lower(s) == [i \in 1..Len(s) |-> LowerChar(s[i])]

\* s.startswith(p)
startswith(s, p) == Len(s) >= Len(p) /\ SubSeq(s, 1, Len(p)) = p

\* s.find(p, start) with Python's 0-based positions; -1 when p does not occur
find(s, p, start) ==
    LET hits == {k \in start..(Len(s) - Len(p)) : SubSeq(s, k + 1, k + Len(p)) = p}
    IN  IF hits = {} THEN 0 - 1 ELSE CHOOSE k \in hits : \A m \in hits : k <= m

\* the slice s[a:b] for 0 <= a and 0 <= b
slice(s, a, b) == SubSeq(s, a + 1, IF b > Len(s) THEN Len(s) ELSE b)

IsSpace(ch) == ch \in {" ", "\n", "\t"}

RECURSIVE lstrip(_)
lstrip(s) == IF s # <<>> /\ IsSpace(Head(s)) THEN lstrip(Tail(s)) ELSE s

RECURSIVE rstrip(_)
rstrip(s) ==
    IF s # <<>> /\ IsSpace(s[Len(s)]) THEN rstrip(SubSeq(s, 1, Len(s) - 1)) ELSE s

\* s.strip()
strip(s) == lstrip(rstrip(s))

RECURSIVE split(_, _)
\* s.split(ch) for a one-character separator: every field, empty ones too
split(s, ch) ==
    LET i == find(s, <<ch>>, 0)
    IN  IF i = 0 - 1 THEN <<s>>
        ELSE <<slice(s, 0, i)>> \o split(slice(s, i + 1, Len(s)), ch)

\* s.split(ch, 1): at most one split
split1(s, ch) ==
    LET i == find(s, <<ch>>, 0)
    IN  IF i = 0 - 1 THEN <<s>>
        ELSE <<slice(s, 0, i), slice(s, i + 1, Len(s))>>

RECURSIVE join(_, _)
\* sep.join(parts)
join(parts, sep) ==
    IF parts = <<>> THEN <<>>
    ELSE IF Len(parts) = 1 THEN parts[1]
    ELSE parts[1] \o sep \o join(Tail(parts), sep)

----------------------------------------------------------------------------
(* Circuits and gates *)

NoParameter == [kind |-> "none", value |-> 0, var |-> ""]
Fixed(v) == [kind |-> "fixed", value |-> v, var |-> ""]
Variable(a) == [kind |-> "variable", value |-> 0, var |-> a]

QGate(nm, tg, ct, par) == [name |-> nm, target |-> tg, control |-> ct, parameter |-> par]

\* X(target=t), Y(target=t), Z(target=t) as parse_command builds them
XGate(t) == QGate(<<"X">>, <<t>>, <<>>, NoParameter)
YGate(t) == QGate(<<"Y">>, <<t>>, <<>>, NoParameter)
ZGate(t) == QGate(<<"Z">>, <<t>>, <<>>, NoParameter)

\* k controls on consecutive qubits from off, then nt targets
Shape(k, nt, off) ==
    [control |-> [i \in 1..k |-> off + i - 1],
     target |-> [i \in 1..nt |-> off + k + i - 1]]

Shapes ==
    {Shape(0, 1, 0), Shape(1, 1, 0), Shape(2, 2, 9)}
        \cup {Shape(k, 1, 0) : k \in 3..MaxControls}

NamedParameters ==
    {<<<<"X">>, NoParameter>>, <<<<"Y">>, NoParameter>>, <<<<"Z">>, NoParameter>>,
     <<<<"R","z">>, Fixed(12)>>, <<<<"R","x">>, Variable("a")>>}

Gates ==
    {QGate(np[1], sh.target, sh.control, np[2]) : np \in NamedParameters, sh \in Shapes}

Circuits == UNION {[1..n -> Gates] : n \in 0..MaxGates}

\* variables=None, a complete mapping, a mapping that lacks the variable
NoVariables == [given |-> FALSE, values |-> <<>>]
VariableMappings ==
    {NoVariables,
     [given |-> TRUE, values |-> [a |-> 0 - 7]],
     [given |-> TRUE, values |-> [b |-> 3]]}

\* circuit.extract_variables()
extract_variables(c) ==
    {c[i].parameter.var : i \in {j \in DOMAIN c : c[j].parameter.kind = "variable"}}

\* circuit.qubits: the qubit indices the gates refer to
qubits(c) == UNION {Range(c[i].target) \cup Range(c[i].control) : i \in DOMAIN c}

\* circuit.n_qubits: largest index referred to, plus one
n_qubits(c) ==
    IF qubits(c) = {} THEN 0
    ELSE (CHOOSE q \in qubits(c) : \A r \in qubits(c) : r <= q) + 1

\* Compiler(...)(circuit, variables=None): the circuits of the model are already
\* written in the primitive vocabulary, which the compiler leaves as they are
Compile(c) == c

\* g.parameter(variables) has a value
parameter_resolves(g, vs) ==
    g.parameter.kind = "variable" => (vs.given /\ g.parameter.var \in DOMAIN vs.values)

\* g.parameter(variables)
Evaluate(par, vs) == IF par.kind = "variable" THEN vs.values[par.var] ELSE par.value

----------------------------------------------------------------------------
(* Export: convert_to_open_qasm_2 and name_and_params *)

\* the largest number of controls the exporter accepts (len(g.control) > 2 raises)
MaxExportControls == 2

Header == <<"O","P","E","N","Q","A","S","M"," ","2",".","0",";","\n","i","n","c","l","u","d","e"," ","\"","q","e","l","i","b","1",".","i","n","c","\"",";","\n">>

\* qubits_names of lines 165-168
qubits_names(c) == [q \in qubits(c) |-> <<"q","[">> \o str(q) \o <<"]">>]

\* the two register lines of lines 170-171
Registers(c) ==
    <<"q","r","e","g"," ","q","[">> \o str(n_qubits(c)) \o <<"]",";","\n">>
        \o <<"c","r","e","g"," ","c","[">> \o str(n_qubits(c)) \o <<"]",";","\n">>

\* a slip in the condition of line 136: `or` where the code has `and`
missing_variables_or(c, vs) == (~vs.given) \/ extract_variables(c) # {}

\* the condition of line 136
missing_variables(c, vs) == (~vs.given) /\ extract_variables(c) # {}

is_controlled(g) == Len(g.control) > 0

\* the condition of line 178
too_many_controls(g) == Len(g.control) > MaxExportControls

\* control_str of lines 175-183
control_str(g, names) ==
    IF is_controlled(g)
    THEN join([i \in 1..Len(g.control) |-> names[g.control[i]]], <<",">>) \o <<",">>
    ELSE <<>>

\* a slip in lines 209-210: one "c" for a controlled gate, however many controls
name_and_params_one_c(g, vs) ==
    (IF Len(g.control) > 0 THEN <<"c">> ELSE <<>>)
        \o lower(g.name)
        \o (IF g.parameter.kind # "none"
            THEN <<"(">> \o str(Evaluate(g.parameter, vs)) \o <<")">>
            ELSE <<>>)
        \o <<" ">>

\* name_and_params(g, variables), lines 207-219
name_and_params(g, vs) ==
    [i \in 1..Len(g.control) |-> "c"]
        \o lower(g.name)
        \o (IF g.parameter.kind # "none"
            THEN <<"(">> \o str(Evaluate(g.parameter, vs)) \o <<")">>
            ELSE <<>>)
        \o <<" ">>

\* a slip in lines 186-190: all the targets of a gate in one statement
emit_targets_grouped(targets, gate_name, cstr, names) ==
    IF targets = <<>> THEN <<>>
    ELSE gate_name \o cstr
             \o join([i \in 1..Len(targets) |-> names[targets[i]]], <<",">>) \o <<";","\n">>

RECURSIVE emit_targets(_, _, _, _)
\* the loop `for t in g.target` of lines 186-190
emit_targets(targets, gate_name, cstr, names) ==
    IF targets = <<>> THEN <<>>
    ELSE gate_name \o cstr \o names[Head(targets)] \o <<";","\n">>
             \o emit_targets(Tail(targets), gate_name, cstr, names)

Returned(text) == [kind |-> "returned", text |-> text, error |-> NoError]
Raised(err) == [kind |-> "raised", text |-> None, error |-> err]
Pending == [kind |-> "pending", text |-> None, error |-> NoError]

ImportPending == [kind |-> "pending", circuit |-> <<>>, error |-> NoError]
ImportReturned(c) == [kind |-> "returned", circuit |-> c, error |-> NoError]
ImportRaised(err) == [kind |-> "raised", circuit |-> <<>>, error |-> err]

ParsePending == [kind |-> "pending", gate |-> XGate(0), error |-> NoError]

\* lines 136-171: the check of the variables, the compilation, the header and registers
ConvertBegin ==
    /\ call = "export" /\ pc = "idle"
    /\ IF missing_variables(circuit, variables)
       THEN /\ pc' = "raised"
            /\ ret' = Raised(MissingVariables)
            /\ UNCHANGED <<compiled, result, gi>>
       ELSE /\ compiled' = Compile(circuit)
            /\ result' = Header \o Registers(Compile(circuit))
            /\ gi' = 1
            /\ pc' = "gates"
            /\ UNCHANGED ret
    /\ UNCHANGED <<call, circuit, variables, qasm_code, rigorous, imp, command, parsed, code, iters>>

\* lines 173-190: one iteration of `for g in compiled.gates`
ConvertGate ==
    /\ call = "export" /\ pc = "gates" /\ gi <= Len(compiled)
    /\ LET g == compiled[gi]
           names == qubits_names(compiled)
       IN  IF is_controlled(g) /\ too_many_controls(g)
           THEN /\ pc' = "raised"
                /\ ret' = Raised(UnsupportedControlArity)
                /\ UNCHANGED <<result, gi>>
           ELSE IF ~parameter_resolves(g, variables)
           THEN /\ pc' = "raised"
                /\ ret' = Raised(UnresolvedParameter)
                /\ UNCHANGED <<result, gi>>
           ELSE /\ result' = result \o emit_targets(g.target, name_and_params(g, variables),
                                                    control_str(g, names), names)
                /\ gi' = gi + 1
                /\ UNCHANGED <<pc, ret>>
    /\ UNCHANGED <<call, circuit, variables, compiled, qasm_code, rigorous, imp, command, parsed, code, iters>>

\* line 192, and line 41 of export_open_qasm: the text is returned
ConvertReturn ==
    /\ call = "export" /\ pc = "gates" /\ gi > Len(compiled)
    /\ pc' = "returned"
    /\ ret' = Returned(result)
    /\ UNCHANGED <<call, circuit, variables, compiled, result, gi, qasm_code, rigorous, imp, command, parsed, code, iters>>

----------------------------------------------------------------------------
(* Import: import_open_qasm *)

\* line 60: `qasm_code.splitlines` without a call is the bound method itself
splitlines_attribute(text) == [type |-> "builtin_function_or_method", of |-> text]

\* the types of values a `for` statement can iterate
IterableTypes == {"list", "str", "tuple", "dict"}

\* lines 60-63: `for line in lines` iterates the value of line 60, which is a
\* bound method: Python raises TypeError there, before any line is read,
\* whatever the text and the strictness; lines 64-99 are not reached
import_open_qasm(text, strict) ==
    LET lines == splitlines_attribute(text)
    IN  CASE lines.type \notin IterableTypes -> ImportRaised(TypeError)

QasmHeader == <<"O","P","E","N","Q","A","S","M"," ","2",".","0",";","\n","i","n","c","l","u","d","e"," ","\"","q","e","l","i","b","1",".","i","n","c","\"",";","\n">>

\* texts handed to import_open_qasm
ScenarioText == QasmHeader \o <<"x"," ","q","[","0","]",";","\n","b","a","r","r","i","e","r"," ","q","[","0","]",";","\n","z"," ","q","[","1","]",";">>
RegistersText ==
    QasmHeader \o <<"q","r","e","g"," ","q","[","2","]",";","\n","c","r","e","g"," ","c","[","2","]",";","\n","y"," ","q","[","1","]",";","\n","m","e","a","s","u","r","e"," ","q","[","1","]"," ","-",">"," ","c","[","1","]",";","\n","i","d"," ","q","[","0","]",";","\n","x"," ","q","[","0","]",";","\n">>
NoVersionText == <<"x"," ","q","[","0","]",";","\n">>
IncludeOnlyText == <<"i","n","c","l","u","d","e"," ","\"","q","e","l","i","b","1",".","i","n","c","\"",";","\n","z"," ","q","[","1","]",";">>
NoIncludeText == <<"O","P","E","N","Q","A","S","M"," ","2",".","0",";","\n","x"," ","q","[","0","]",";">>
IfText == QasmHeader \o <<"x"," ","q","[","0","]",";","\n","i","f"," ","(","c","=","=","1",")"," ","x"," ","q","[","0","]",";","\n","z"," ","q","[","1","]",";">>
OpaqueText == QasmHeader \o <<"o","p","a","q","u","e"," ","m","y","g","a","t","e"," ","q",";","\n","x"," ","q","[","0","]",";">>
BareIfText == <<"i","f"," ","(","c","=","=","1",")"," ","x"," ","q","[","0","]",";">>
NoIndexText == QasmHeader \o <<"x"," ","q",";","\n">>
NoArgumentText == QasmHeader \o <<"y",";","\n">>
CustomGateText == QasmHeader \o <<"g","a","t","e"," ","f","o","o"," ","a"," ","{"," ","x"," ","a",";"," ","}","\n","x"," ","q","[","0","]",";">>
UnclosedGateText == QasmHeader \o <<"g","a","t","e"," ","f","o","o"," ","a"," ","{"," ","x"," ","a",";","\n","x"," ","q","[","0","]",";">>

XYZTexts == {ScenarioText, RegistersText}
BadHeaderTexts == {NoVersionText, IncludeOnlyText, NoIncludeText}
IfTexts == {IfText, OpaqueText, BareIfText}
QasmInputs ==
    XYZTexts \cup BadHeaderTexts \cup IfTexts
        \cup {NoIndexText, NoArgumentText, CustomGateText, UnclosedGateText}

\* import_open_qasm(qasm_code, rigorous=rigorous) called on a text of the caller
ImportText ==
    /\ call = "import" /\ pc = "idle"
    /\ imp' = import_open_qasm(qasm_code, rigorous)
    /\ pc' = "imported"
    /\ UNCHANGED <<call, circuit, variables, compiled, result, gi, ret, qasm_code, rigorous, command, parsed, code, iters>>

\* import_open_qasm(export_open_qasm(circuit)): the round trip
ImportExported ==
    /\ call = "export" /\ pc = "returned"
    /\ qasm_code' = ret.text
    /\ rigorous' \in BOOLEAN
    /\ imp' = import_open_qasm(ret.text, rigorous')
    /\ pc' = "imported"
    /\ UNCHANGED <<call, circuit, variables, compiled, result, gi, ret, command, parsed, code, iters>>

----------------------------------------------------------------------------
(* The specification of the two entry points *)

Init ==
    /\ pc = "idle"
    /\ compiled = <<>> /\ result = <<>> /\ gi = 0
    /\ ret = Pending /\ imp = ImportPending
    /\ command = <<>> /\ parsed = ParsePending /\ code = <<>> /\ iters = 0
    /\ \/ /\ call = "export"
          /\ circuit \in Circuits
          /\ variables \in VariableMappings
          /\ qasm_code = None /\ rigorous = TRUE
       \/ /\ call = "import"
          /\ circuit = <<>> /\ variables = NoVariables
          /\ qasm_code \in QasmInputs /\ rigorous \in BOOLEAN

Next == ConvertBegin \/ ConvertGate \/ ConvertReturn \/ ImportText \/ ImportExported

Spec == Init /\ [][Next]_vars

----------------------------------------------------------------------------
(* parse_command *)

ParsedNone == [kind |-> "none", gate |-> XGate(0), error |-> NoError]
ParsedGate(g) == [kind |-> "gate", gate |-> g, error |-> NoError]
ParseRaised(err) == [kind |-> "raised", gate |-> XGate(0), error |-> err]

RECURSIVE stripped_nonempty(_)
\* [s.strip() for s in parts if s.strip()]
stripped_nonempty(parts) ==
    IF parts = <<>> THEN <<>>
    ELSE (IF strip(Head(parts)) # <<>> THEN <<strip(Head(parts))>> ELSE <<>>)
             \o stripped_nonempty(Tail(parts))

\* number of decimal digits of s from 0-based position k on
RECURSIVE digit_run(_, _)
digit_run(s, k) ==
    IF k < Len(s) /\ IsDigit(s[k + 1]) THEN 1 + digit_run(s, k + 1) ELSE 0

\* the positions where r"\[([0-9]+)\]" matches in s: a "[", one or more digits, a "]"
match_positions(s) ==
    {k \in 0..(Len(s) - 1) :
        /\ s[k + 1] = "["
        /\ digit_run(s, k + 1) > 0
        /\ k + 1 + digit_run(s, k + 1) < Len(s)
        /\ s[k + 2 + digit_run(s, k + 1)] = "]"}

\* re.search(r"\[([0-9]+)\]", s): the leftmost match anywhere in s, and its group 1
re_search(s) ==
    LET hits == match_positions(s)
    IN  IF hits = {} THEN [found |-> FALSE, group1 |-> <<>>]
        ELSE LET k == CHOOSE h \in hits : \A m \in hits : h <= m
             IN  [found |-> TRUE, group1 |-> slice(s, k + 1, k + 1 + digit_run(s, k + 1))]

IgnoredNames == {<<"b","a","r","r","i","e","r">>, <<"c","r","e","g">>, <<"m","e","a","s","u","r","e">>, <<"i","d">>}
UnsupportedNames == {<<"o","p","a","q","u","e">>, <<"i","f">>}
PauliNames == {<<"x">>, <<"y">>, <<"z">>}

\* X(target=...), Y(target=...), Z(target=...) of lines 254-259
pauli_gate(name, t) ==
    IF name = <<"x">> THEN XGate(t) ELSE IF name = <<"y">> THEN YGate(t) ELSE ZGate(t)

\* parse_command(command), lines 240-259
parse_command(cmd) ==
    LET parts == split1(cmd, " ")
    IN  IF Len(parts) < 2 THEN ParseRaised(ValueError)
        ELSE LET name == parts[1]
                 rest == parts[2]
                 args == stripped_nonempty(split(rest, ","))
             IN  IF name \in IgnoredNames THEN ParsedNone
                 ELSE IF name \in UnsupportedNames THEN ParseRaised(UnsupportedOperation(cmd))
                 ELSE IF name \in PauliNames
                 THEN IF args = <<>> THEN ParseRaised(IndexError)
                      ELSE IF ~re_search(args[1]).found THEN ParseRaised(AttributeError)
                      ELSE ParsedGate(pauli_gate(name, IntOf(re_search(args[1]).group1)))
                 ELSE ParsedNone

\* commands handed to parse_command: a leading identifier and what follows it
CommandNames ==
    {<<"x">>, <<"y">>, <<"z">>, <<"b","a","r","r","i","e","r">>, <<"c","r","e","g">>, <<"m","e","a","s","u","r","e">>, <<"i","d">>, <<"o","p","a","q","u","e">>,
     <<"i","f">>, <<"i","f","(","c","=","=","1",")">>, <<"h">>, <<"q","r","e","g">>, <<"c","x">>}
CommandRests ==
    {<<>>, <<" ","q","[","0","]">>, <<" ","q","[","1","0","]">>, <<" ","q">>, <<" ","[","1","]">>, <<" ","q","[","1","]","x">>, <<" ",",">>,
     <<" ","q","[","0","]",",","q","[","1","]">>, <<" ","q","[","0","]"," ","q","[","1","]">>, <<" "," ","r","[","2","]">>, <<" ","q","[","x","]">>}
Commands == {n \o r : n \in CommandNames, r \in CommandRests}

\* a call parse_command(command)
ParseCommand ==
    /\ call = "parse_command" /\ pc = "idle"
    /\ parsed' = parse_command(command)
    /\ pc' = "parsed"
    /\ UNCHANGED <<call, circuit, variables, compiled, result, gi, ret, qasm_code, rigorous, imp, command, code, iters>>

InitParse ==
    /\ call = "parse_command" /\ pc = "idle"
    /\ command \in Commands
    /\ parsed = ParsePending
    /\ circuit = <<>> /\ variables = NoVariables
    /\ compiled = <<>> /\ result = <<>> /\ gi = 0
    /\ ret = Pending /\ imp = ImportPending
    /\ qasm_code = None /\ rigorous = TRUE /\ code = <<>> /\ iters = 0

NextParse == ParseCommand

\* parse_command applied to each command of Commands
SpecParse == InitParse /\ [][NextParse]_vars

----------------------------------------------------------------------------
(* Lines 81-99 of import_open_qasm: the custom-gate loop and the commands *)

\* most fragments joined into a text
MaxFragments == 3
\* most iterations of the custom-gate loop that are followed
MaxIters == 4

\* parse_custom_gate(custom), line 229: computes a length, changes nothing
parse_custom_gate(custom) == Len(custom)

RECURSIVE parse_commands(_, _)
\* lines 93-99: the circuit of the commands, or the first error raised
parse_commands(cmds, acc) ==
    IF cmds = <<>> THEN ImportReturned(acc)
    ELSE LET r == parse_command(Head(cmds))
         IN  IF r.kind = "raised" THEN ImportRaised(r.error)
             ELSE parse_commands(Tail(cmds),
                                 IF r.kind = "gate" THEN Append(acc, r.gate) ELSE acc)

\* lines 83-89, one iteration that finds the keyword: the span from it to the next
\* "}" is taken out; code[i:j + 1] and code[j + 1:] are Python slices, so with
\* j = -1 the span is empty and code[j + 1:] is the whole of code
CustomGateStep ==
    /\ call = "body" /\ pc = "custom_gates"
    /\ Len(code) <= MaxCodeLen /\ iters < MaxIters
    /\ LET i == find(code, <<"g","a","t","e"," ">>, 0)
           j == find(code, <<"}">>, i)
       IN  /\ i # 0 - 1
           /\ parse_custom_gate(slice(code, i, j + 1)) >= 0
           /\ code' = slice(code, 0, i) \o slice(code, j + 1, Len(code))
    /\ iters' = iters + 1
    /\ UNCHANGED <<call, circuit, variables, compiled, result, gi, pc, ret, qasm_code, rigorous, imp, command, parsed>>

\* lines 84-86: the keyword does not occur, the loop is left
CustomGateExit ==
    /\ call = "body" /\ pc = "custom_gates"
    /\ find(code, <<"g","a","t","e"," ">>, 0) = 0 - 1
    /\ pc' = "commands"
    /\ UNCHANGED <<call, circuit, variables, compiled, result, gi, ret, qasm_code, rigorous, imp, command, parsed, code, iters>>

\* lines 92-99: the commands are split at ";" and parsed in order
ParseCommands ==
    /\ call = "body" /\ pc = "commands"
    /\ imp' = parse_commands(stripped_nonempty(split(code, ";")), <<>>)
    /\ pc' = "imported"
    /\ UNCHANGED <<call, circuit, variables, compiled, result, gi, ret, qasm_code, rigorous, command, parsed, code, iters>>

\* cleaned lines (no comment, no blank at either end, not empty) that line 81 joins
CodeLines ==
    {<<"x"," ","q","[","0","]",";">>, <<"z"," ","q","[","1","]",";">>, <<"g","a","t","e"," ","g"," ","a"," ","{","x"," ","a",";","}">>, <<"g","a","t","e"," ","g"," ","a"," ","{","x"," ","a",";">>,
     <<"m","y","g","a","t","e"," ","q","[","1","]",";">>, <<"}">>}

CodeLineSeqs == UNION {[1..n -> CodeLines] : n \in 1..MaxFragments}

\* "\n".join(oq_code), line 81
Codes == {join(ls, <<"\n">>) : ls \in CodeLineSeqs}

InitBody ==
    /\ call = "body" /\ pc = "custom_gates"
    /\ code \in Codes /\ iters = 0
    /\ imp = ImportPending
    /\ circuit = <<>> /\ variables = NoVariables
    /\ compiled = <<>> /\ result = <<>> /\ gi = 0 /\ ret = Pending
    /\ qasm_code = None /\ rigorous = TRUE
    /\ command = <<>> /\ parsed = ParsePending

NextBody == CustomGateStep \/ CustomGateExit \/ ParseCommands

\* lines 81-99 on their own, started from each text of Codes
SpecBody == InitBody /\ [][NextBody]_vars

----------------------------------------------------------------------------
(* Properties of the export *)

ExportEnded == ret.kind # "pending"

\* the lines of a text: the fields between line feeds (the last field follows the
\* last line feed)
LinesOf(text) == split(text, "\n")

RECURSIVE TargetsBefore(_, _)
\* number of targets of the gates before position i
TargetsBefore(c, i) ==
    IF i <= 1 THEN 0 ELSE TargetsBefore(c, i - 1) + Len(c[i - 1].target)

\* the statement written for target j of gate i: the lines after the four lines
\* of header and registers, one per target
StatementOf(text, c, i, j) == LinesOf(text)[4 + TargetsBefore(c, i) + j]

\* the gate token of a statement: what precedes its first blank
TokenOf(stmt) == split1(stmt, " ")[1]

\* k times "c", then the lower-cased name
ControlledName(g) == [i \in 1..Len(g.control) |-> "c"] \o lower(g.name)

SomeGateOverArity(c) == \E i \in DOMAIN c : Len(c[i].control) > 2
VariablesSuffice(c, vs) ==
    /\ vs.given \/ extract_variables(c) = {}
    /\ \A i \in DOMAIN c : parameter_resolves(c[i], vs)

\* the parameter written in a token: the number between "(" and ")"
WrittenParameter(tok) ==
    LET text == slice(tok, find(tok, <<"(">>, 0) + 1, find(tok, <<")">>, 0))
    IN  IF Head(text) = "-" THEN 0 - IntOf(Tail(text)) ELSE IntOf(text)

\* the token of gate g as the claims describe it: |controls| times "c", then the
\* lower-cased name, and nothing else but the parenthesised parameter of a
\* parametrized gate
TokenAsDescribed(tok, g) ==
    LET base == ControlledName(g)
    IN  IF g.parameter.kind = "none" THEN tok = base
        ELSE /\ startswith(tok, base \o <<"(">>)
             /\ tok[Len(tok)] = ")"
             /\ find(tok, <<")">>, 0) = Len(tok) - 1

\* what C1 says of an ended export of compiled circuit c
ArityContract(c) ==
    /\ SomeGateOverArity(c) => ret = Raised(UnsupportedControlArity)
    /\ ~SomeGateOverArity(c) =>
           /\ ret.kind = "returned"
           /\ \A i \in DOMAIN c : \A j \in DOMAIN c[i].target :
                  TokenAsDescribed(TokenOf(StatementOf(ret.text, c, i, j)), c[i])

\* C1 as the claim states it: for every circuit passed to export, a compiled gate
\* with more than 2 controls makes export fail with UnsupportedControlArity and
\* return no text; with at most 2 controls on every compiled gate export succeeds
\* and each gate's token is exactly |controls| times "c" followed by the
\* lower-cased name.
C1_AsClaimed == ExportEnded => ArityContract(Compile(circuit))

\* C1 amended: the same, for every circuit whose variables the call resolves (the
\* circuit has no unresolved variable, or the mapping passed gives each one a
\* value).
C1_ControlArity ==
    (ExportEnded /\ VariablesSuffice(circuit, variables)) => ArityContract(Compile(circuit))

\* C1 witness: export has raised UnsupportedControlArity on a later gate, after
\* writing the statements of an earlier, accepted controlled gate
C1_Witness ==
    /\ ret = Raised(UnsupportedControlArity)
    /\ gi > 1
    /\ Len(compiled[1].control) = 2
    /\ VariablesSuffice(circuit, variables)

\* C2 as the claim states it: a circuit with an unresolved variable, exported
\* without variables, fails with MissingVariables before any text is produced;
\* exported with a complete mapping it succeeds and every emitted parameter is
\* the value of the gate's parameter on the mapping.
C2_AsClaimed ==
    (ExportEnded /\ extract_variables(circuit) # {}) =>
        /\ ~variables.given => (ret = Raised(MissingVariables) /\ result = <<>>)
        /\ (variables.given /\ VariablesSuffice(circuit, variables)) =>
               /\ ret.kind = "returned"
               /\ \A i \in DOMAIN compiled : \A j \in DOMAIN compiled[i].target :
                      compiled[i].parameter.kind # "none" =>
                          WrittenParameter(TokenOf(StatementOf(ret.text, compiled, i, j)))
                              = Evaluate(compiled[i].parameter, variables)

\* C2 amended: as claimed, where "succeeds" is limited to circuits no compiled gate
\* of which has more than 2 controls.
C2_MissingVariables ==
    (ExportEnded /\ extract_variables(circuit) # {}) =>
        /\ ~variables.given => (ret = Raised(MissingVariables) /\ result = <<>>)
        /\ (variables.given /\ VariablesSuffice(circuit, variables)
                /\ ~SomeGateOverArity(Compile(circuit))) =>
               /\ ret.kind = "returned"
               /\ \A i \in DOMAIN compiled : \A j \in DOMAIN compiled[i].target :
                      compiled[i].parameter.kind # "none" =>
                          WrittenParameter(TokenOf(StatementOf(ret.text, compiled, i, j)))
                              = Evaluate(compiled[i].parameter, variables)

\* C2 witness: a circuit with a variable has been exported with a mapping and the
\* text written holds the parameter of a controlled gate on two targets
C2_Witness ==
    /\ ret.kind = "returned"
    /\ variables.given
    /\ \E i \in DOMAIN circuit :
           /\ circuit[i].parameter.kind = "variable"
           /\ Len(circuit[i].target) = 2

\* C3: a returned text is the version line, the include line, "qreg q[n];",
\* "creg c[n];" with n the qubit count of the compiled circuit, then for each gate
\* in order one statement per target in target order, each made of the gate token,
\* the names of all the controls and the name of that one target.
C3_Layout ==
    ret.kind = "returned" =>
        LET L == LinesOf(ret.text)
            n == n_qubits(compiled)
        IN  /\ Len(L) = 4 + TargetsBefore(compiled, Len(compiled) + 1) + 1
            /\ L[Len(L)] = <<>>
            /\ L[1] = <<"O","P","E","N","Q","A","S","M"," ","2",".","0",";">>
            /\ L[2] = <<"i","n","c","l","u","d","e"," ","\"","q","e","l","i","b","1",".","i","n","c","\"",";">>
            /\ L[3] = <<"q","r","e","g"," ","q","[">> \o str(n) \o <<"]",";">>
            /\ L[4] = <<"c","r","e","g"," ","c","[">> \o str(n) \o <<"]",";">>
            /\ \A i \in DOMAIN compiled : \A j \in DOMAIN compiled[i].target :
                   LET g == compiled[i]
                       stmt == StatementOf(ret.text, compiled, i, j)
                       parts == split1(stmt, " ")
                       refs == split(SubSeq(parts[2], 1, Len(parts[2]) - 1), ",")
                   IN  /\ Len(parts) = 2
                       /\ parts[1] \o <<" ">> = name_and_params(g, variables)
                       /\ parts[2][Len(parts[2])] = ";"
                       /\ Len(refs) = Len(g.control) + 1
                       /\ \A k \in DOMAIN g.control :
                              refs[k] = <<"q","[">> \o str(g.control[k]) \o <<"]">>
                       /\ refs[Len(refs)] = <<"q","[">> \o str(g.target[j]) \o <<"]">>

\* C3 witness: a text has been returned for a circuit whose second gate has two
\* controls and two targets
C3_Witness ==
    /\ ret.kind = "returned"
    /\ Len(compiled) = 2
    /\ Len(compiled[2].target) = 2
    /\ Len(compiled[2].control) = 2

----------------------------------------------------------------------------
(* Properties of the import *)

ImportEnded == imp.kind # "pending"

\* the gates the statements of a text of the model stand for, in statement order
StatedGates(text) ==
    CASE text = ScenarioText -> <<XGate(0), ZGate(1)>>
      [] text = RegistersText -> <<YGate(1), XGate(0)>>
      [] text = NoVersionText -> <<XGate(0)>>
      [] text = IncludeOnlyText -> <<ZGate(1)>>
      [] text = NoIncludeText -> <<XGate(0)>>
      [] OTHER -> <<>>

\* C4 as the claim states it: a text whose first retained line is not the version
\* directive, or whose next retained line is not the include, makes a strict
\* import fail with MalformedHeader; a non-strict import of it does not fail on
\* the header and parses the body from the line that did not match.
C4_AsClaimed ==
    (call = "import" /\ ImportEnded /\ qasm_code \in BadHeaderTexts) =>
        IF rigorous
        THEN imp.kind = "raised"
                 /\ imp.error \in {MalformedHeaderVersion, MalformedHeaderInclude}
        ELSE imp = ImportReturned(StatedGates(qasm_code))

\* C5 as the claim states it: a text with an `if` or `opaque` statement makes
\* import fail, strict or not, with UnsupportedOperation naming the statement
\* verbatim.
C5_AsClaimed ==
    (call = "import" /\ ImportEnded /\ qasm_code \in IfTexts) =>
        /\ imp.kind = "raised"
        /\ imp.error \in {UnsupportedOperation(<<"i","f"," ","(","c","=","=","1",")"," ","x"," ","q","[","0","]">>),
                          UnsupportedOperation(<<"o","p","a","q","u","e"," ","m","y","g","a","t","e"," ","q">>)}

\* C6 as the claim states it: a text with a valid header and a body of x, y, z
\* statements on q[<int>] and of barrier, creg, measure, id statements imports to
\* exactly the X/Y/Z gates of its statements, in order.
C6_AsClaimed ==
    (call = "import" /\ ImportEnded /\ qasm_code \in XYZTexts) =>
        imp = ImportReturned(StatedGates(qasm_code))

RECURSIVE SingleTargetGates(_)
\* the gates of c, a gate on k targets taken as k gates of one target
SingleTargetGates(c) ==
    IF c = <<>> THEN <<>>
    ELSE [t \in 1..Len(Head(c).target) |->
              QGate(Head(c).name, <<Head(c).target[t]>>, Head(c).control, Head(c).parameter)]
             \o SingleTargetGates(Tail(c))

OnlyXYZ(c) ==
    \A i \in DOMAIN c :
        /\ c[i].name \in {<<"X">>, <<"Y">>, <<"Z">>}
        /\ c[i].control = <<>>
        /\ c[i].parameter = NoParameter

\* C7 as the claim states it: for a circuit of uncontrolled X, Y, Z gates the
\* strict import of the exported text returns the same gates on the same targets
\* in the same order.
C7_AsClaimed ==
    (call = "export" /\ ImportEnded /\ rigorous /\ OnlyXYZ(circuit)) =>
        imp = ImportReturned(SingleTargetGates(compiled))

\* C8 as the claim states it: for a circuit without unresolved parameters the
\* import of the exported text returns a circuit with the qubit count of the
\* compiled circuit.
C8_AsClaimed ==
    (call = "export" /\ ImportEnded /\ extract_variables(circuit) = {}) =>
        /\ imp.kind = "returned"
        /\ n_qubits(imp.circuit) = n_qubits(compiled)

\* the argument has the exact shape reg[<int>]: a register name of letters, "[",
\* one or more digits, "]", and nothing else
ExactShape(arg) ==
    LET i == find(arg, <<"[">>, 0)
    IN  /\ i > 0
        /\ \A k \in 1..i : arg[k] \in {"q", "r", "x", "c"}
        /\ digit_run(arg, i + 1) > 0
        /\ arg[Len(arg)] = "]"
        /\ i + 1 + digit_run(arg, i + 1) = Len(arg) - 1

\* the first argument of a command: what follows the name, up to the first comma
FirstArgument(cmd) ==
    IF Len(split1(cmd, " ")) < 2 THEN <<>>
    ELSE strip(split(split1(cmd, " ")[2], ",")[1])

\* C9 as the claim states it: an x, y or z statement whose first argument is not
\* of the exact shape reg[<int>], a statement without argument included, is
\* refused with an error and gives no gate; a gate is built only for that shape.
C9_AsClaimed ==
    (call = "parse_command" /\ pc = "parsed"
         /\ split1(command, " ")[1] \in PauliNames) =>
        /\ ~ExactShape(FirstArgument(command)) => parsed.kind = "raised"
        /\ parsed.kind = "gate" => ExactShape(FirstArgument(command))

====
